---- MODULE Spec2Model ----
(***************************************************************************)
(* A model of the libp2p relay node: the keypair store                     *)
(* (LoadOrGenerateKeypair), the identity derivation (ToSightDID,           *)
(* NewLibp2pNodeService), node startup (CreateLibp2pNode, InitNode, main), *)
(* the inbound loop (handleIncomingMessages) and the control surface       *)
(* (SendHandler, HandleOutgoingMessage).                                   *)
(*                                                                         *)
(* Byte strings are sequences of 0..255.  JSON texts and the Go values     *)
(* encoding/json decodes them to are two different kinds of value, and     *)
(* Unmarshal / Marshal convert between them the way the library does.      *)
(***************************************************************************)
EXTENDS Integers, Sequences, FiniteSets, TLC

---------------------------------------------------------------------------
(* Bounds of the model.                                                    *)

\* longest public key drawn for the identity derivation
MaxKeyLen == 2
\* messages the subscription delivers in one run of the inbound loop
MaxMsgs == 3
\* requests the control surface receives
MaxReqs == 2
\* longest configured bootstrap list
MaxPeers == 3
\* process runs (restarts) on one data directory
MaxRuns == 3
\* latest wall-clock instant
MaxClock == 2

---------------------------------------------------------------------------
(* base58 (github.com/mr-tron/base58, Bitcoin alphabet) and ToSightDID.    *)

Alphabet ==
    << "1","2","3","4","5","6","7","8","9",
       "A","B","C","D","E","F","G","H","J","K","L","M","N","P","Q","R","S",
       "T","U","V","W","X","Y","Z",
       "a","b","c","d","e","f","g","h","i","j","k","m","n","o","p","q","r",
       "s","t","u","v","w","x","y","z" >>

\* Long division of a big-endian base-256 number by 58, with carry rem:
\* the quotient's base-256 digits and the remainder.
RECURSIVE DivMod58(_, _)
DivMod58(bytes, rem) ==
    IF bytes = <<>> THEN [q |-> <<>>, r |-> rem]
    ELSE LET cur  == rem * 256 + Head(bytes)
             rest == DivMod58(Tail(bytes), cur % 58)
         IN  [q |-> <<cur \div 58>> \o rest.q, r |-> rest.r]

RECURSIVE StripZeros(_)
StripZeros(bytes) ==
    IF bytes # <<>> /\ Head(bytes) = 0 THEN StripZeros(Tail(bytes)) ELSE bytes

\* The base-58 digits of the number, most significant first.
RECURSIVE Base58Digits(_)
Base58Digits(bytes) ==
    LET n == StripZeros(bytes)
    IN  IF n = <<>> THEN ""
        ELSE LET d == DivMod58(n, 0)
             IN  Base58Digits(d.q) \o Alphabet[d.r + 1]

\* Every leading zero byte is encoded as one "1".
RECURSIVE LeadingOnes(_)
LeadingOnes(bytes) ==
    IF bytes # <<>> /\ Head(bytes) = 0
    THEN "1" \o LeadingOnes(Tail(bytes)) ELSE ""

Base58Encode(bytes) == LeadingOnes(bytes) \o Base58Digits(bytes)

DIDPrefix == "did:sight:hoster:"

\* the multicodec tag of an Ed25519 public key, 0xed 0x01
Multicodec == <<237, 1>>

\* A slip of ToSightDID: the last byte of the key is left out of the encoding.
ToSightDID_DropLastByte(publicKey) ==
    DIDPrefix \o Base58Encode(Multicodec \o
        (IF publicKey = <<>> THEN <<>>
         ELSE SubSeq(publicKey, 1, Len(publicKey) - 1)))

ToSightDID(publicKey) == DIDPrefix \o Base58Encode(Multicodec \o publicKey)

GatewayDID == "gateway"

\* A slip of the constructor: the identity is derived from the key whatever
\* the gateway flag says.
NewLibp2pNodeService_did_IgnoresGateway(kp, gateway) ==
    ToSightDID(kp.PublicKey)

\* The did field NewLibp2pNodeService computes.
NewLibp2pNodeService_did(kp, gateway) ==
    IF gateway THEN GatewayDID ELSE ToSightDID(kp.PublicKey)

---------------------------------------------------------------------------
(* encoding/json.  A JSON text is                                          *)
(*   [t |-> "bad"]            bytes that are no JSON value                 *)
(*   [t |-> "null"]                                                        *)
(*   [t |-> "str", s |-> s]   a string                                     *)
(*   [t |-> "num", n |-> l]   a number written with the literal l          *)
(*   [t |-> "arr"]            an array                                     *)
(*   [t |-> "obj", m |-> ms]  an object, ms its members <<name, text>> in  *)
(*                            the order written (names may repeat)         *)
(* A Go value held in an interface{} is                                    *)
(*   [g |-> "nil"], [g |-> "string", s |-> s], [g |-> "float64", f |-> l]  *)
(*   (l the shortest literal of the float64), [g |-> "slice"],             *)
(*   [g |-> "map", kv |-> f] (f a function on the keys), and               *)
(*   [g |-> "nilmap"], the nil map[string]interface{}.                     *)

JBad       == [t |-> "bad"]
JNull      == [t |-> "null"]
JArr       == [t |-> "arr"]
JStr(s)    == [t |-> "str", s |-> s]
JNum(l)    == [t |-> "num", n |-> l]
JObj(ms)   == [t |-> "obj", m |-> ms]

GoNil        == [g |-> "nil"]
GoNilMap     == [g |-> "nilmap"]
GoSlice      == [g |-> "slice"]
GoString(s)  == [g |-> "string", s |-> s]
GoFloat64(l) == [g |-> "float64", f |-> l]
GoMap(f)     == [g |-> "map", kv |-> f]

\* A number literal beyond the float64 range: strconv.ParseFloat fails on it.
OutOfRange(l) == l = "1e999"

\* strconv.ParseFloat followed by the shortest formatting of the float64: the
\* literal Marshal writes for the number Unmarshal read.  2^53+1 is not a
\* float64 and rounds to 2^53; "1.0" is written back as "1".
Float64Of(l) ==
    CASE l = "9007199254740993" -> "9007199254740992"
      [] l = "1.0"              -> "1"
      [] OTHER                  -> l

\* Whether every number of the text is in the float64 range.
RECURSIVE InRange(_)
InRange(j) ==
    CASE j.t = "num" -> ~OutOfRange(j.n)
      [] j.t = "obj" -> \A i \in 1..Len(j.m) : InRange(j.m[i][2])
      [] OTHER       -> TRUE

MemberNames(ms) == {ms[i][1] : i \in 1..Len(ms)}

\* The member a name denotes: the last one written wins.
LastMember(ms, k) ==
    LET i == CHOOSE i \in 1..Len(ms) :
                 /\ ms[i][1] = k
                 /\ \A j \in (i+1)..Len(ms) : ms[j][1] # k
    IN  ms[i][2]

\* The value Unmarshal stores in an interface{}.
RECURSIVE ToGo(_)
ToGo(j) ==
    CASE j.t = "null" -> GoNil
      [] j.t = "str"  -> GoString(j.s)
      [] j.t = "num"  -> GoFloat64(Float64Of(j.n))
      [] j.t = "arr"  -> GoSlice
      [] j.t = "obj"  ->
            GoMap([k \in MemberNames(j.m) |-> ToGo(LastMember(j.m, k))])

\* json.Unmarshal(data, &m) and json.NewDecoder(body).Decode(&m) for a
\* var m map[string]interface{}: an object fills the map, null leaves it nil,
\* anything else (and a number out of range) is an error.
UnmarshalMap(data) ==
    IF data.t = "bad" \/ ~InRange(data) THEN [err |-> TRUE, val |-> GoNilMap]
    ELSE CASE data.t = "obj"  -> [err |-> FALSE, val |-> ToGo(data)]
           [] data.t = "null" -> [err |-> FALSE, val |-> GoNilMap]
           [] OTHER           -> [err |-> TRUE,  val |-> GoNilMap]

\* m[k] for a map[string]interface{}: nil when the key is absent or m is nil.
MapIndex(m, k) ==
    IF m.g = "map" /\ k \in DOMAIN m.kv THEN m.kv[k] ELSE GoNil

\* The names the model's JSON objects use, in the byte order Marshal sorts
\* map keys by.
KeyOrder == <<"foo", "payload", "status", "to">>

SortedKeys(S) == SelectSeq(KeyOrder, LAMBDA k : k \in S)

\* json.Marshal of a value held in an interface{}: map keys are sorted.
RECURSIVE Marshal(_)
Marshal(v) ==
    CASE v.g = "nil"     -> JNull
      [] v.g = "nilmap"  -> JNull
      [] v.g = "string"  -> JStr(v.s)
      [] v.g = "float64" -> JNum(v.f)
      [] v.g = "slice"   -> JArr
      [] v.g = "map"     ->
            LET ks == SortedKeys(DOMAIN v.kv)
            IN  JObj([i \in 1..Len(ks) |-> <<ks[i], Marshal(v.kv[ks[i]])>>])

\* a == b for an interface{} a and a string b: equal only when a holds a
\* string with the same bytes.
IfaceEqString(a, b) == a.g = "string" /\ a.s = b

---------------------------------------------------------------------------
(* The state.                                                              *)

VARIABLES
    pc,         \* where main is: "load", "new", "init", "join", "subscribe",
                \* "spawn", "serve", "wait", "stop", "shutdown", "return",
                \* "exited", "fatal"
    fatalAt,    \* the call whose failure made the process exit, or "none"
    run,        \* how many times the process has been started
    file,       \* the bytes of device-keypair.json, or NoFile
    now,        \* the latest wall-clock instant the process has read
    keypair,    \* main's keypair, which the service keeps
    created,    \* the keypairs generated and persisted so far, oldest first,
                \* each with the run that made it
    call,       \* what the last LoadOrGenerateKeypair call met and did
    isGateway,  \* IS_GATEWAY
    bootstrap,  \* BOOTSTRAP_ADDRS, split at the commas
    did,        \* s.did
    node,       \* s.node: "nil", "open" or "closed"
    hostKey,    \* the public key of the identity the overlay host runs under
    dialed,     \* the host.Connect calls made, in order, with their outcomes
    topic,      \* s.topic: "nil" or "joined"
    subscribed, \* s.subscribed: "nil" or "active"
    loopPc,     \* the inbound goroutine: "none", "next", "post" or "exited"
    received,   \* what Next has returned, in order: messages, and at the
                \* end the error that ended the loop
    posts,      \* the tunnel POSTs issued, in order
    server,     \* the HTTP server: "down", "up" or "closed"
    reqs,       \* the requests SendHandler was called with, in order
    published,  \* the messages handed to topic.Publish that it accepted
    peer        \* another node of the network, running the same program: its
                \* public key, IS_GATEWAY and s.did, which of the messages
                \* published here its inbound loop has received, and the
                \* tunnel POSTs that loop has issued

storeVars   == <<file, now, keypair, created, call>>
configVars  == <<isGateway, bootstrap>>
overlayVars == <<node, hostKey, dialed, topic, subscribed>>
inboundVars == <<loopPc, received, posts>>
controlVars == <<server, reqs, published>>
vars == <<pc, fatalAt, run, file, now, keypair, created, call, isGateway, bootstrap,
          did, node, hostKey, dialed, topic, subscribed, loopPc, received,
          posts, server, reqs, published, peer>>

---------------------------------------------------------------------------
(* KeypairStore: LoadOrGenerateKeypair.                                    *)

NoFile == [t |-> "nofile"]

\* A JSON string holding the RFC3339 text of an instant, and one holding the
\* base64 text of a byte string: Marshal writes a string field that
\* time.Format filled, and a []byte field, as these; both read back exactly.
JTime(at) == [t |-> "time", at |-> at]
JB64(b)   == [t |-> "b64", b |-> b]

\* The CreatedAt / LastUsed of the zero Keypair (the empty string).
NoTime == -1

ZeroKeypair ==
    [Seed |-> <<>>, CreatedAt |-> NoTime, LastUsed |-> NoTime,
     PublicKey |-> <<>>]

\* The key pairs crypto.GenerateKeyPair may return.
KeyPairs ==
    { [priv |-> <<11>>, pub |-> <<1>>], [priv |-> <<12>>, pub |-> <<2>>] }

\* json.Marshal of a Keypair: the fields in declaration order, publicKey
\* left out when it is empty (omitempty).
MarshalKeypair(kp) ==
    JObj(<< <<"seed", JB64(kp.Seed)>>,
            <<"createdAt", JTime(kp.CreatedAt)>>,
            <<"lastUsed", JTime(kp.LastUsed)>> >>
         \o (IF kp.PublicKey = <<>> THEN <<>>
             ELSE << <<"publicKey", JB64(kp.PublicKey)>> >>))

\* json.Unmarshal into a Keypair: a field the object does not name keeps
\* its zero value.
UnmarshalKeypair(data) ==
    CASE data.t = "null" -> [err |-> FALSE, val |-> ZeroKeypair]
      [] data.t = "obj"  ->
            LET has(k) == k \in MemberNames(data.m)
                get(k) == LastMember(data.m, k)
            IN  [err |-> FALSE,
                 val |->
                   [Seed      |-> IF has("seed") THEN get("seed").b ELSE <<>>,
                    CreatedAt |-> IF has("createdAt")
                                  THEN get("createdAt").at ELSE NoTime,
                    LastUsed  |-> IF has("lastUsed")
                                  THEN get("lastUsed").at ELSE NoTime,
                    PublicKey |-> IF has("publicKey")
                                  THEN get("publicKey").b ELSE <<>>]]
      [] OTHER           -> [err |-> TRUE, val |-> ZeroKeypair]

\* What os.Stat(keyFile) may return: nil, "not exist", or another error (no
\* permission to search the directory, an I/O error).
StatResults(f) == IF f = NoFile THEN {"notexist", "error"} ELSE {"ok", "error"}

\* What a failed os.WriteFile leaves: the file as it was (the open failed)
\* or a truncated one (the write failed after O_TRUNC).
FailedWrite(f) == {f, JBad}

NoCall == [run |-> 0, existed |-> FALSE, stat |-> "none", before |-> NoFile,
           generated |-> FALSE, returned |-> FALSE, failed |-> "none"]

\* if _, err := os.Stat(keyFile); err == nil { load } else { generate }
TakesLoadBranch(f, stat) == stat = "ok"

\* The load branch.
LoadKeypair ==
    /\ pc = "load"
    /\ \E stat \in StatResults(file), readOk \in BOOLEAN,
          wr \in {"ok", "fail"}, t \in now..MaxClock :
        /\ TakesLoadBranch(file, stat)
        /\ LET u  == UnmarshalKeypair(file)
               kp == [u.val EXCEPT !.LastUsed = t]
               c  == [run |-> run, existed |-> file # NoFile, stat |-> stat,
                      before |-> file, generated |-> FALSE,
                      returned |-> FALSE, failed |-> "none"]
           IN  IF ~readOk \/ u.err
               THEN /\ pc' = "fatal"
                    /\ fatalAt' = "keypair"
                    /\ call' = [c EXCEPT !.failed = IF ~readOk THEN "read"
                                                    ELSE "unmarshal"]
                    /\ UNCHANGED <<file, now, keypair>>
               ELSE /\ now' = t
                    /\ IF wr = "ok"
                       THEN /\ file' = MarshalKeypair(kp)
                            /\ keypair' = kp
                            /\ call' = [c EXCEPT !.returned = TRUE]
                            /\ pc' = "new"
                            /\ UNCHANGED fatalAt
                       ELSE /\ file' \in FailedWrite(file)
                            /\ call' = [c EXCEPT !.failed = "write"]
                            /\ pc' = "fatal"
                            /\ fatalAt' = "keypair"
                            /\ UNCHANGED keypair
    /\ UNCHANGED <<run, created, isGateway, bootstrap, did, overlayVars,
                   inboundVars, controlVars, peer>>

\* The generate branch.
GenerateKeypair ==
    /\ pc = "load"
    /\ \E stat \in StatResults(file), genOk \in BOOLEAN, k \in KeyPairs,
          wr \in {"ok", "fail"}, t1 \in now..MaxClock :
       \E t2 \in t1..MaxClock :
        /\ ~TakesLoadBranch(file, stat)
        /\ LET kp == [Seed |-> k.priv, CreatedAt |-> t1, LastUsed |-> t2,
                      PublicKey |-> k.pub]
               c  == [run |-> run, existed |-> file # NoFile, stat |-> stat,
                      before |-> file, generated |-> genOk,
                      returned |-> FALSE, failed |-> "none"]
           IN  IF ~genOk
               THEN /\ pc' = "fatal"
                    /\ fatalAt' = "keypair"
                    /\ call' = [c EXCEPT !.failed = "generate"]
                    /\ UNCHANGED <<file, now, keypair, created>>
               ELSE /\ now' = t2
                    /\ IF wr = "ok"
                       THEN /\ file' = MarshalKeypair(kp)
                            /\ keypair' = kp
                            /\ created' = Append(created, [kp |-> kp, run |-> run])
                            /\ call' = [c EXCEPT !.returned = TRUE]
                            /\ pc' = "new"
                            /\ UNCHANGED fatalAt
                       ELSE /\ file' \in FailedWrite(file)
                            /\ call' = [c EXCEPT !.failed = "write"]
                            /\ pc' = "fatal"
                            /\ fatalAt' = "keypair"
                            /\ UNCHANGED <<keypair, created>>
    /\ UNCHANGED <<run, isGateway, bootstrap, did, overlayVars, inboundVars,
                   controlVars, peer>>

---------------------------------------------------------------------------
(* Startup: main, NewLibp2pNodeService, InitNode, CreateLibp2pNode.        *)

\* main builds the service from the keypair and the environment.
NewService ==
    /\ pc = "new"
    /\ did' = NewLibp2pNodeService_did(keypair, isGateway)
    /\ pc' = "init"
    /\ UNCHANGED <<fatalAt, run, storeVars, configVars, overlayVars,
                   inboundVars, controlVars, peer>>

\* The addresses BOOTSTRAP_ADDRS may name.  strings.Split gives the empty
\* string for an unset variable and after a trailing comma.
PeerA == "/ip4/10.0.0.1/tcp/4010/p2p/12D3KooWA"
PeerB == "/ip4/10.0.0.2/tcp/4010/p2p/12D3KooWB"
BootstrapAddrs == {"", PeerA, PeerB}

\* Every list of 1..n addresses.
RECURSIVE AddrLists(_)
AddrLists(n) ==
    IF n = 0 THEN {<<>>}
    ELSE LET shorter == AddrLists(n - 1)
         IN  shorter \cup
             {Append(l, a) : l \in {x \in shorter : Len(x) = n - 1},
                             a \in BootstrapAddrs}

BootstrapLists == AddrLists(MaxPeers) \ {<<>>}

\* peer.AddrInfoFromString: an error for a string that is no multiaddr
\* with a peer id.
AddrInfoFromString(addr) ==
    IF addr \in {PeerA, PeerB} THEN [err |-> FALSE, info |-> addr]
    ELSE [err |-> TRUE, info |-> ""]

\* A slip of the first loop: an address that does not parse ends the loop
\* (break where the code has continue).
ParsedPeers_StopsAtInvalid(list) ==
    LET bad == {i \in 1..Len(list) : AddrInfoFromString(list[i]).err}
        n   == IF bad = {} THEN Len(list)
               ELSE (CHOOSE i \in bad : \A j \in bad : i <= j) - 1
    IN  [i \in 1..n |-> AddrInfoFromString(list[i]).info]

\* The first loop of CreateLibp2pNode: the AddrInfo of every address that
\* parses, in the configured order; the others are logged and skipped.
ParsedPeers(list) ==
    LET ok == SelectSeq(list, LAMBDA a : ~AddrInfoFromString(a).err)
    IN  [i \in 1..Len(ok) |-> AddrInfoFromString(ok[i]).info]

\* The keys the host identity of CreateLibp2pNode may get: it calls
\* crypto.GenerateKeyPair itself.
HostKeys == {<<3>>, <<4>>}

\* A slip of the connect loop: the first peer that cannot be reached ends
\* the process.
ConnectPeers_FatalOnFailure(peerAddrs, oc) ==
    IF \E i \in DOMAIN oc : ~oc[i]
    THEN LET f == CHOOSE i \in DOMAIN oc : ~oc[i] /\ \A j \in 1..(i-1) : oc[j]
         IN  [fatal |-> TRUE,
              attempts |-> [i \in 1..f |-> [info |-> peerAddrs[i],
                                            ok |-> oc[i]]]]
    ELSE [fatal |-> FALSE,
          attempts |-> [i \in 1..Len(peerAddrs) |->
                           [info |-> peerAddrs[i], ok |-> oc[i]]]]

\* The second loop of CreateLibp2pNode: one host.Connect per parsed peer, in
\* order, oc[i] telling whether the i-th succeeds; a failure is logged and
\* the loop goes on.  No outcome ends the process.
ConnectPeers(peerAddrs, oc) ==
    [fatal |-> FALSE,
     attempts |-> [i \in 1..Len(peerAddrs) |->
                      [info |-> peerAddrs[i], ok |-> oc[i]]]]

\* InitNode's call of CreateLibp2pNode: the host identity, the host, the
\* pubsub service, then the two bootstrap loops.
CreateLibp2pNode ==
    /\ pc = "init"
    /\ \E res \in {"ok", "hostkey", "host", "pubsub"}, hk \in HostKeys,
          oc \in [1..Len(ParsedPeers(bootstrap)) -> BOOLEAN] :
        LET c == ConnectPeers(ParsedPeers(bootstrap), oc)
        IN  IF res # "ok"
            THEN /\ pc' = "fatal"
                 /\ fatalAt' = res
                 /\ UNCHANGED <<node, hostKey, dialed>>
            ELSE /\ hostKey' = hk
                 /\ node' = "open"
                 /\ dialed' = c.attempts
                 /\ IF c.fatal
                    THEN pc' = "fatal" /\ fatalAt' = "bootstrap"
                    ELSE pc' = "join" /\ UNCHANGED fatalAt
    /\ UNCHANGED <<run, storeVars, configVars, did, topic, subscribed,
                   inboundVars, controlVars, peer>>

\* A slip of InitNode: the inbound loop is started right after the join,
\* before the subscription is made and stored.
JoinGoes_SkipsSubscribe(ok) == IF ok THEN "spawn" ELSE "fatal"

\* Where main is after InitNode's call of ps.Join: the subscribe comes
\* next; log.Fatalf ends the process when the join failed.
JoinGoes(ok) == IF ok THEN "subscribe" ELSE "fatal"

\* ps.Join("sight-message")
JoinTopic ==
    /\ pc = "join"
    /\ \E ok \in BOOLEAN :
        /\ pc' = JoinGoes(ok)
        /\ IF ok THEN /\ topic' = "joined"
                      /\ UNCHANGED fatalAt
           ELSE /\ fatalAt' = "join"
                /\ UNCHANGED topic
    /\ UNCHANGED <<run, storeVars, configVars, did, node, hostKey, dialed,
                   subscribed, inboundVars, controlVars, peer>>

\* A slip of InitNode: a Subscribe that failed is logged (log.Printf where
\* the code has log.Fatalf) and InitNode goes on.
SubscribeGoes_LogsOnly(ok) == "spawn"

\* Where main is after InitNode's call of topic.Subscribe: log.Fatalf ends
\* the process when it failed.
SubscribeGoes(ok) == IF ok THEN "spawn" ELSE "fatal"

\* topic.Subscribe()
Subscribe ==
    /\ pc = "subscribe"
    /\ \E ok \in BOOLEAN :
        /\ pc' = SubscribeGoes(ok)
        /\ IF ok THEN /\ subscribed' = "active"
                      /\ UNCHANGED fatalAt
           ELSE /\ fatalAt' = "subscribe"
                /\ UNCHANGED subscribed
    /\ UNCHANGED <<run, storeVars, configVars, did, node, hostKey, dialed,
                   topic, inboundVars, controlVars, peer>>

\* go s.handleIncomingMessages(ctx)
SpawnInbound ==
    /\ pc = "spawn"
    /\ loopPc' = "next"
    /\ pc' = "serve"
    /\ UNCHANGED <<fatalAt, run, storeVars, configVars, did, overlayVars,
                   received, posts, controlVars, peer>>

\* main registers the route and starts the server goroutine; a ListenAndServe
\* that cannot listen ends the process.
StartServer ==
    /\ pc = "serve"
    /\ \E ok \in BOOLEAN :
        IF ok THEN /\ server' = "up"
                   /\ pc' = "wait"
                   /\ UNCHANGED fatalAt
        ELSE /\ pc' = "fatal"
             /\ fatalAt' = "listen"
             /\ UNCHANGED server
    /\ UNCHANGED <<run, storeVars, configVars, did, overlayVars,
                   inboundVars, reqs, published, peer>>

---------------------------------------------------------------------------
(* A goroutine runs only while the process does: log.Fatal and the return  *)
(* of main end every goroutine where it stands.                            *)

Alive == pc \notin {"exited", "fatal"}

---------------------------------------------------------------------------
(* MessageRouter, inbound: handleIncomingMessages.                         *)

DidA == ToSightDID(<<1>>)
DidB == ToSightDID(<<2>>)

Envelope(to, payload) == JObj(<< <<"to", to>>, <<"payload", payload>> >>)

\* The messages the topic may deliver: every node of the network sees every
\* message, whoever it is for and whatever its bytes are.
InMsgs ==
    { JBad, JNull, JArr,
      Envelope(JStr(DidA), JObj(<< <<"to", JStr(DidA)>>,
                                   <<"foo", JNum("1")>> >>)),
      Envelope(JStr(DidA), JStr("hi")),
      Envelope(JStr(DidB), JObj(<< <<"to", JStr(DidB)>>,
                                   <<"foo", JNum("9007199254740993")>> >>)),
      Envelope(JStr(GatewayDID), JObj(<< <<"to", JStr(GatewayDID)>> >>)),
      Envelope(JStr(GatewayDID), JNum("1.0")),
      Envelope(JNull, JStr("hi")),
      Envelope(JNum("1"), JStr("hi")),
      JObj(<< <<"payload", JStr("hi")>> >>),
      JObj(<< <<"to", JStr(DidA)>> >>),
      JObj(<< <<"to", JStr(DidA)>>, <<"payload", JStr("hi")>>,
              <<"to", JStr(DidB)>> >>),
      Envelope(JStr(DidA), JNum("1e999")) }

\* A slip of the filter: a message that names no receiver is taken as meant
\* for every node.
AddressedToMe_NilIsBroadcast(payload, myDid) ==
    \/ MapIndex(payload, "to").g = "nil"
    \/ IfaceEqString(MapIndex(payload, "to"), myDid)

\* if payload["to"] != s.did { continue }
AddressedToMe(payload, myDid) == IfaceEqString(MapIndex(payload, "to"), myDid)

\* A slip of the loop: a message that does not decode ends it (return where
\* the code has continue).
LoopBody_ReturnOnInvalid(msg, myDid) ==
    LET u == UnmarshalMap(msg)
    IN  IF u.err THEN [goes |-> "exited", body |-> JNull]
        ELSE IF ~AddressedToMe(u.val, myDid)
        THEN [goes |-> "next", body |-> JNull]
        ELSE [goes |-> "post", body |-> Marshal(MapIndex(u.val, "payload"))]

\* What the body of the loop does with a message Next returned: a message
\* that does not decode, or is for another node, is dropped (continue); the
\* payload of any other is marshalled and POSTed to the tunnel.  Marshal
\* does not fail on a value Unmarshal built.
LoopBody(msg, myDid) ==
    LET u == UnmarshalMap(msg)
    IN  IF u.err \/ ~AddressedToMe(u.val, myDid)
        THEN [goes |-> "next", body |-> JNull]
        ELSE [goes |-> "post", body |-> Marshal(MapIndex(u.val, "payload"))]

\* One turn of the loop up to the POST.
InboundNext ==
    /\ Alive
    /\ loopPc = "next"
    /\ Len(received) < MaxMsgs
    /\ \E msg \in InMsgs :
        LET b == LoopBody(msg, did)
        IN  /\ received' = Append(received, msg)
            /\ loopPc' = b.goes
            /\ posts' = IF b.goes = "post"
                        THEN Append(posts, [idx  |-> Len(received) + 1,
                                            body |-> b.body,
                                            res  |-> "pending"])
                        ELSE posts
    /\ UNCHANGED <<pc, fatalAt, run, storeVars, configVars, did, overlayVars,
                   controlVars, peer>>

\* A slip of the loop: a POST that failed is issued again.
PostReturn_Retries(ps, res) ==
    IF res = "err"
    THEN [goes  |-> "post",
          posts |-> Append([ps EXCEPT ![Len(ps)].res = res],
                           [ps[Len(ps)] EXCEPT !.res = "pending"])]
    ELSE [goes |-> "next", posts |-> [ps EXCEPT ![Len(ps)].res = res]]

\* A slip of the loop: a POST that failed ends it (return after the log).
PostReturn_ExitsOnError(ps, res) ==
    [goes  |-> IF res = "err" THEN "exited" ELSE "next",
     posts |-> [ps EXCEPT ![Len(ps)].res = res]]

\* What the loop does when http.Post has returned with res: an error is
\* logged, and the loop goes to its next turn either way.  No POST is
\* issued other than the one of the turn.
PostReturn(ps, res) ==
    [goes |-> "next", posts |-> [ps EXCEPT ![Len(ps)].res = res]]

\* http.Post returns.
InboundPostReturn ==
    /\ Alive
    /\ loopPc = "post"
    /\ \E res \in {"ok", "err"} :
        /\ posts' = PostReturn(posts, res).posts
        /\ loopPc' = PostReturn(posts, res).goes
    /\ UNCHANGED <<pc, fatalAt, run, storeVars, configVars, did, overlayVars,
                   received, controlVars, peer>>

\* What Next returns when the subscription fails or is cancelled.
NextError == [t |-> "error"]

\* Next returns an error: the loop logs it and returns.
InboundNextErr ==
    /\ Alive
    /\ loopPc = "next"
    /\ received' = Append(received, NextError)
    /\ loopPc' = "exited"
    /\ UNCHANGED <<pc, fatalAt, run, storeVars, configVars, did, overlayVars,
                   posts, controlVars, peer>>

---------------------------------------------------------------------------
(* ControlSurface and MessageRouter, outbound: SendHandler and            *)
(* HandleOutgoingMessage.  Every request runs in a goroutine of its own.  *)

\* The bodies a local client may POST.
Bodies ==
    { JBad, JArr, JNull,
      JObj(<< <<"to", JStr(DidA)>>, <<"foo", JNum("1")>> >>),
      JObj(<< <<"foo", JNum("9007199254740993")>> >>),
      JObj(<< <<"to", JStr("x")>>, <<"to", JStr(DidB)>> >>),
      JObj(<< <<"to", JStr(DidA)>>, <<"foo", JNum("1e999")>> >>),
      JObj(<< <<"to", JStr(DidB)>>, <<"foo", JNum("9007199254740993")>> >>) }

\* A slip of the wrapping: the payload is the request without its `to`.
Libp2pMsg_StripsTo(tunnelMsg) ==
    GoMap([k \in {"to", "payload"} |->
              IF k = "to" THEN MapIndex(tunnelMsg, "to")
              ELSE IF tunnelMsg.g = "map"
                   THEN GoMap([n \in DOMAIN tunnelMsg.kv \ {"to"} |->
                                  tunnelMsg.kv[n]])
                   ELSE tunnelMsg])

\* libp2pMsg := map[string]interface{}{"to": tunnelMsg["to"],
\*                                     "payload": tunnelMsg}
Libp2pMsg(tunnelMsg) ==
    GoMap([k \in {"to", "payload"} |->
              IF k = "to" THEN MapIndex(tunnelMsg, "to") ELSE tunnelMsg])

\* http.Error(w, "Invalid JSON", 400)
BadRequest == [status |-> 400, body |-> JBad]

\* json.NewEncoder(w).Encode(map[string]string{"status": "ok"}), with the
\* status 200 the first write implies.
Acknowledgment ==
    [status |-> 200,
     body |-> Marshal(GoMap([k \in {"status"} |-> GoString("ok")]))]

NoResponse == [status |-> 0, body |-> JNull]

\* A slip of SendHandler: no return after http.Error, so a body that does
\* not decode is answered 400 and then wrapped and published all the same.
NewRequest_NoReturn(body) ==
    LET u == UnmarshalMap(body)
    IN  [body |-> body, at |-> "publish", decoded |-> ~u.err,
         msg |-> Libp2pMsg(u.val), sent |-> "no",
         resp |-> IF u.err THEN BadRequest ELSE NoResponse]

\* The request SendHandler starts as: the body is decoded; a body that
\* does not decode is answered 400 and the handler returns; any other is
\* wrapped and goes to HandleOutgoingMessage.
NewRequest(body) ==
    LET u == UnmarshalMap(body)
    IN  IF u.err
        THEN [body |-> body, at |-> "done", decoded |-> FALSE,
              msg |-> GoNil, sent |-> "no", resp |-> BadRequest]
        ELSE [body |-> body, at |-> "publish", decoded |-> TRUE,
              msg |-> Libp2pMsg(u.val), sent |-> "no", resp |-> NoResponse]

\* SendHandler up to its call of HandleOutgoingMessage.
SendHandlerDecode ==
    /\ Alive
    /\ server = "up"
    /\ Len(reqs) < MaxReqs
    /\ \E body \in Bodies : reqs' = Append(reqs, NewRequest(body))
    /\ UNCHANGED <<pc, fatalAt, run, storeVars, configVars, did, overlayVars,
                   inboundVars, server, published, peer>>

\* A slip of HandleOutgoingMessage: the bytes to publish are kept in one
\* buffer of the service, which the handler of the latest request has
\* filled.
OutgoingData_SharedBuffer(rs, i) == Marshal(rs[Len(rs)].msg)

\* data, err := json.Marshal(msg): the bytes the handler of request i hands
\* to topic.Publish are those of its own msg, a local of that handler.
OutgoingData(rs, i) == Marshal(rs[i].msg)

\* HandleOutgoingMessage: the envelope is marshalled and handed to
\* topic.Publish, whose error is only logged.
HandleOutgoingMessage(i) ==
    /\ Alive
    /\ reqs[i].at = "publish"
    /\ \E ok \in BOOLEAN :
        /\ reqs' = [reqs EXCEPT ![i].at = "respond",
                                ![i].sent = IF ok THEN "ok" ELSE "err"]
        /\ published' = IF ok
                        THEN Append(published,
                                 [req |-> i, data |-> OutgoingData(reqs, i)])
                        ELSE published
    /\ UNCHANGED <<pc, fatalAt, run, storeVars, configVars, did, overlayVars,
                   inboundVars, server, peer>>

\* A slip of SendHandler: a publish that failed is reported to the caller.
ResponseAfter_ReportsFailure(sent) ==
    IF sent = "err" THEN [status |-> 500, body |-> JBad] ELSE Acknowledgment

\* What SendHandler answers once HandleOutgoingMessage has returned:
\* HandleOutgoingMessage returns nothing, so the answer is the same whether
\* the publish went through (sent = "ok") or not (sent = "err").
ResponseAfter(sent) == Acknowledgment

\* SendHandler after HandleOutgoingMessage has returned.
SendHandlerRespond(i) ==
    /\ Alive
    /\ reqs[i].at = "respond"
    /\ reqs' = [reqs EXCEPT ![i].at = "done",
                            ![i].resp = ResponseAfter(reqs[i].sent)]
    /\ UNCHANGED <<pc, fatalAt, run, storeVars, configVars, did, overlayVars,
                   inboundVars, server, published, peer>>

---------------------------------------------------------------------------
(* Shutdown: the end of main.                                              *)

\* <-stop: the interrupt signal arrives.
Signal ==
    /\ pc = "wait"
    /\ pc' = "stop"
    /\ UNCHANGED <<fatalAt, run, storeVars, configVars, did, overlayVars,
                   inboundVars, controlVars, peer>>

\* service.Stop(): s.node.Close(), its error only logged.  Stop touches
\* neither s.subscribed nor s.topic, and the context the inbound loop got
\* is context.Background(), which nothing cancels.
Stop ==
    /\ pc = "stop"
    /\ node' = "closed"
    /\ pc' = "shutdown"
    /\ UNCHANGED <<fatalAt, run, storeVars, configVars, did, hostKey, dialed,
                   topic, subscribed, inboundVars, controlVars, peer>>

\* srv.Shutdown(context.Background()): the listener is closed, and
\* ListenAndServe returns ErrServerClosed in the server goroutine.
ServerShutdown ==
    /\ pc = "shutdown"
    /\ server' = "closed"
    /\ pc' = "return"
    /\ UNCHANGED <<fatalAt, run, storeVars, configVars, did, overlayVars,
                   inboundVars, reqs, published, peer>>

\* The process ends: main returns, or the server goroutine gets to its
\* log.Fatal(err) on ErrServerClosed first.  Whichever it is, the other
\* goroutines end where they stand.
MainReturn ==
    /\ pc = "return"
    /\ \/ pc' = "exited" /\ UNCHANGED fatalAt
       \/ pc' = "fatal" /\ fatalAt' = "serve"
    /\ UNCHANGED <<run, storeVars, configVars, did, overlayVars,
                   inboundVars, controlVars, peer>>

---------------------------------------------------------------------------
(* The process ends (a fatal error, a kill) and is started again on the    *)
(* same data directory: the file and the clock stay, the memory is new.    *)

Restart ==
    /\ pc # "load"
    /\ run < MaxRuns
    /\ run' = run + 1
    /\ pc' = "load"
    /\ fatalAt' = "none"
    /\ keypair' = ZeroKeypair
    /\ did' = ""
    /\ node' = "nil"
    /\ hostKey' = <<>>
    /\ dialed' = <<>>
    /\ topic' = "nil"
    /\ subscribed' = "nil"
    /\ loopPc' = "none"
    /\ received' = <<>>
    /\ posts' = <<>>
    /\ server' = "down"
    /\ reqs' = <<>>
    /\ published' = <<>>
    /\ UNCHANGED <<file, now, created, call, configVars, peer>>

---------------------------------------------------------------------------
(* Another node of the network, built by the same NewLibp2pNodeService.    *)

NoPeer == [PublicKey |-> <<>>, isGateway |-> FALSE, did |-> "",
           received |-> <<>>, posts |-> <<>>]

PeerNewService ==
    /\ peer.did = ""
    /\ peer' = [peer EXCEPT
                  !.did = NewLibp2pNodeService_did(peer, peer.isGateway)]
    /\ UNCHANGED <<pc, fatalAt, run, storeVars, configVars, did, overlayVars,
                   inboundVars, controlVars>>

\* The peer's handleIncomingMessages takes one turn on the next message
\* published here: the topic hands every node every message.  The turn is
\* the LoopBody of this node's loop, with the peer's s.did.
PeerInbound ==
    /\ peer.did # ""
    /\ Len(peer.received) < Len(published)
    /\ LET e == Len(peer.received) + 1
           b == LoopBody(published[e].data, peer.did)
       IN  peer' = [peer EXCEPT
                      !.received = Append(@, e),
                      !.posts = IF b.goes = "post"
                                THEN Append(@, [idx |-> e, body |-> b.body])
                                ELSE @]
    /\ UNCHANGED <<pc, fatalAt, run, storeVars, configVars, did, overlayVars,
                   inboundVars, controlVars>>

---------------------------------------------------------------------------
(* The program from the start of the process.                              *)

Init ==
    /\ pc = "load"
    /\ fatalAt = "none"
    /\ run = 1
    /\ file \in {NoFile, JBad}
    /\ now = 0
    /\ keypair = ZeroKeypair
    /\ created = <<>>
    /\ call = NoCall
    /\ isGateway \in BOOLEAN
    /\ bootstrap \in BootstrapLists
    /\ did = ""
    /\ node = "nil"
    /\ hostKey = <<>>
    /\ dialed = <<>>
    /\ topic = "nil"
    /\ subscribed = "nil"
    /\ loopPc = "none"
    /\ received = <<>>
    /\ posts = <<>>
    /\ server = "down"
    /\ reqs = <<>>
    /\ published = <<>>
    /\ peer = NoPeer

Next ==
    \/ LoadKeypair
    \/ GenerateKeypair
    \/ NewService
    \/ CreateLibp2pNode
    \/ JoinTopic
    \/ Subscribe
    \/ SpawnInbound
    \/ StartServer
    \/ InboundNext
    \/ InboundPostReturn
    \/ InboundNextErr
    \/ SendHandlerDecode
    \/ \E i \in 1..Len(reqs) : HandleOutgoingMessage(i)
    \/ \E i \in 1..Len(reqs) : SendHandlerRespond(i)
    \/ Signal
    \/ Stop
    \/ ServerShutdown
    \/ MainReturn
    \/ PeerNewService
    \/ PeerInbound
    \/ Restart

Spec == Init /\ [][Next]_vars

---------------------------------------------------------------------------
(* The keypair store over the runs of the process on one data directory.   *)

InitKeypair == Init /\ ~isGateway /\ bootstrap = <<"">>

NextKeypair == LoadKeypair \/ GenerateKeypair \/ Restart

SpecKeypair == InitKeypair /\ [][NextKeypair]_vars

---------------------------------------------------------------------------
(* One start of the process, up to the point where main waits for the      *)
(* signal.                                                                 *)

NextStartup ==
    \/ LoadKeypair
    \/ GenerateKeypair
    \/ NewService
    \/ CreateLibp2pNode
    \/ JoinTopic
    \/ Subscribe
    \/ SpawnInbound
    \/ StartServer

SpecStartup == Init /\ [][NextStartup]_vars

---------------------------------------------------------------------------
(* The running node: every state main can wait for the signal in, with a   *)
(* keypair the store returned.                                             *)

StoredKeypairs ==
    { [Seed |-> k.priv, CreatedAt |-> 0, LastUsed |-> 0, PublicKey |-> k.pub]
      : k \in KeyPairs }

RunningNode ==
    /\ pc = "wait"
    /\ fatalAt = "none"
    /\ run = 1
    /\ keypair \in StoredKeypairs
    /\ file = MarshalKeypair(keypair)
    /\ now = 0
    /\ created = <<[kp |-> keypair, run |-> 1]>>
    /\ call = [run |-> 1, existed |-> FALSE, stat |-> "notexist",
               before |-> NoFile, generated |-> TRUE, returned |-> TRUE,
               failed |-> "none"]
    /\ isGateway \in BOOLEAN
    /\ bootstrap = <<"">>
    /\ did = NewLibp2pNodeService_did(keypair, isGateway)
    /\ node = "open"
    /\ hostKey \in HostKeys
    /\ dialed = <<>>
    /\ topic = "joined"
    /\ subscribed = "active"
    /\ loopPc = "next"
    /\ received = <<>>
    /\ posts = <<>>
    /\ server = "up"
    /\ reqs = <<>>
    /\ published = <<>>

InitRunning == RunningNode /\ peer = NoPeer

NextInbound == InboundNext \/ InboundPostReturn \/ InboundNextErr

SpecInbound == InitRunning /\ [][NextInbound]_vars

NextOutbound ==
    \/ SendHandlerDecode
    \/ \E i \in 1..Len(reqs) : HandleOutgoingMessage(i)
    \/ \E i \in 1..Len(reqs) : SendHandlerRespond(i)

SpecOutbound == InitRunning /\ [][NextOutbound]_vars

---------------------------------------------------------------------------
(* The running node up to the end of the process: the inbound loop against *)
(* the shutdown path of main.  main's own steps are taken once they can    *)
(* be; nothing makes a message arrive, Next fail or the tunnel answer.     *)

NextShutdown ==
    \/ InboundNext
    \/ InboundPostReturn
    \/ InboundNextErr
    \/ Signal
    \/ Stop
    \/ ServerShutdown
    \/ MainReturn

SpecShutdown ==
    /\ InitRunning
    /\ [][NextShutdown]_vars
    /\ WF_vars(Stop)
    /\ WF_vars(ServerShutdown)
    /\ WF_vars(MainReturn)

---------------------------------------------------------------------------
(* The process from its start to its end with its goroutines beside main:  *)
(* the first message of the inbound loop and the first request of the      *)
(* server, wherever the code lets them run.                                *)

InitProcess == Init /\ bootstrap = <<"">>

NextProcess ==
    \/ NextStartup
    \/ (InboundNext /\ received = <<>>)
    \/ InboundPostReturn
    \/ InboundNextErr
    \/ (SendHandlerDecode /\ reqs = <<>>)
    \/ \E i \in 1..Len(reqs) : HandleOutgoingMessage(i)
    \/ \E i \in 1..Len(reqs) : SendHandlerRespond(i)
    \/ Signal
    \/ Stop
    \/ ServerShutdown
    \/ MainReturn

SpecProcess == InitProcess /\ [][NextProcess]_vars

---------------------------------------------------------------------------
(* The goroutines of the running node side by side: up to MaxReqs request  *)
(* handlers, their steps interleaved, and the inbound loop on its first    *)
(* message.                                                                *)

\* One node is enough: the handlers read neither the keypair nor s.did.
InitConcurrent ==
    /\ InitRunning
    /\ ~isGateway
    /\ keypair.PublicKey = <<1>>
    /\ hostKey = <<3>>

NextConcurrent ==
    \/ SendHandlerDecode
    \/ \E i \in 1..Len(reqs) : HandleOutgoingMessage(i)
    \/ \E i \in 1..Len(reqs) : SendHandlerRespond(i)
    \/ (InboundNext /\ received = <<>>)
    \/ InboundPostReturn
    \/ InboundNextErr

SpecConcurrent == InitConcurrent /\ [][NextConcurrent]_vars

---------------------------------------------------------------------------
(* Two nodes on the topic: the requests this node takes and publishes, and *)
(* the inbound loop of a peer that receives what was published.            *)

\* The peer's key is one of the keys the store generates, so that the
\* peer's identity is DidA or DidB, or "gateway".
InitRelay ==
    /\ RunningNode
    /\ \E k \in KeyPairs, g \in BOOLEAN :
          peer = [NoPeer EXCEPT !.PublicKey = k.pub, !.isGateway = g]

NextRelay ==
    \/ SendHandlerDecode
    \/ \E i \in 1..Len(reqs) : HandleOutgoingMessage(i)
    \/ \E i \in 1..Len(reqs) : SendHandlerRespond(i)
    \/ PeerNewService
    \/ PeerInbound

SpecRelay == InitRelay /\ [][NextRelay]_vars

---------------------------------------------------------------------------
(* The identity derivation on its own: two nodes, their public keys drawn  *)
(* from every byte string of at most MaxKeyLen sample bytes.               *)

ByteSample == {0, 1, 57, 58, 255}

RECURSIVE ByteStrings(_)
ByteStrings(n) ==
    IF n = 0 THEN {<<>>}
    ELSE LET shorter == ByteStrings(n - 1)
         IN  shorter \cup
             {Append(b, x) : b \in {y \in shorter : Len(y) = n - 1},
                             x \in ByteSample}

InitIdentity ==
    /\ pc = "new"
    /\ fatalAt = "none"
    /\ run = 1
    /\ file = NoFile
    /\ now = 0
    /\ \E k \in ByteStrings(MaxKeyLen) :
          keypair = [Seed |-> <<>>, CreatedAt |-> 0, LastUsed |-> 0,
                     PublicKey |-> k]
    /\ created = <<>>
    /\ call = NoCall
    /\ isGateway \in BOOLEAN
    /\ bootstrap = <<"">>
    /\ did = ""
    /\ node = "nil"
    /\ hostKey = <<>>
    /\ dialed = <<>>
    /\ topic = "nil"
    /\ subscribed = "nil"
    /\ loopPc = "none"
    /\ received = <<>>
    /\ posts = <<>>
    /\ server = "down"
    /\ reqs = <<>>
    /\ published = <<>>
    /\ \E k \in ByteStrings(MaxKeyLen), g \in BOOLEAN :
          peer = [NoPeer EXCEPT !.PublicKey = k, !.isGateway = g]

NextIdentity == NewService \/ PeerNewService

SpecIdentity == InitIdentity /\ [][NextIdentity]_vars

---------------------------------------------------------------------------
(* The claims.  They read the texts on the wire themselves, with the two   *)
(* definitions below, so that they do not rest on the operators the        *)
(* actions decode and compare with.                                        *)

\* A text encoding/json decodes into a map[string]interface{} without an
\* error: null or an object, every number in the float64 range.
Decodes(text) == text.t \in {"null", "obj"} /\ InRange(text)

\* The text decodes to an envelope whose `to` is the string d: an object
\* whose (last) member "to" is the JSON string d.
ToIs(text, d) ==
    /\ text.t = "obj"
    /\ InRange(text)
    /\ "to" \in MemberNames(text.m)
    /\ LastMember(text.m, "to") = JStr(d)

\* The indexes of the messages received so far that are addressed to d.
Matching(d) == {i \in 1..Len(received) : ToIs(received[i], d)}

\* The indexes of the received messages a tunnel POST was issued for.
Posted == {posts[p].idx : p \in 1..Len(posts)}

\* C1 (inbound filtering): of the N messages received, the M that decode to
\* an envelope whose `to` equals the local identity get exactly one tunnel
\* POST each, in the order they were received, and no other message gets
\* one.  An absent, null or non-string `to` never matches.
C1_InboundFiltering ==
    /\ Len(posts) = Cardinality(Matching(did))
    /\ Posted = Matching(did)
    /\ \A p, q \in 1..Len(posts) : p < q => posts[p].idx < posts[q].idx
    /\ \A i \in 1..Len(received) :
          /\ received[i].t = "obj"
          /\ \/ "to" \notin MemberNames(received[i].m)
             \/ LastMember(received[i].m, "to").t # "str"
          => i \notin Posted

\* Three messages received, the first and the third for this node, the
\* second not: two POSTs, for the first and then for the third.
C1_Witness ==
    /\ Len(received) = 3
    /\ Matching(did) = {1, 3}
    /\ Len(posts) = 2
    /\ posts[1].idx = 1
    /\ posts[2].idx = 3

\* C2 (malformed-message resilience): a received message that does not
\* decode gets no tunnel POST and does not end the loop (the loop has exited
\* only when the last thing Next returned is its error), and every message
\* for this node that arrives after it is still POSTed.
C2_MalformedSkipped ==
    /\ loopPc = "exited" =>
          /\ received # <<>>
          /\ received[Len(received)] = NextError
    /\ \A i \in 1..Len(received) :
          received[i] # NextError /\ ~Decodes(received[i]) =>
              /\ i \notin Posted
              /\ \A j \in (i+1)..Len(received) :
                    ToIs(received[j], did) => j \in Posted

\* Bytes that are no JSON came first; the message for this node that came
\* after them was POSTed, and the loop is waiting for the next one.
C2_Witness ==
    /\ Len(received) >= 2
    /\ received[1] = JBad
    /\ ToIs(received[2], did)
    /\ 2 \in Posted
    /\ loopPc = "next"

\* C10 (gateway identity): a node configured as a gateway has the identity
\* "gateway" whatever its keypair is; its inbound filter POSTs exactly the
\* messages whose `to` is "gateway", and none addressed to the identity
\* its own public key derives.
C10_GatewayIdentity ==
    isGateway =>
        /\ did = "gateway"
        /\ Posted = Matching("gateway")
        /\ \A i \in Matching(DIDPrefix \o
                             Base58Encode(<<237, 1>> \o keypair.PublicKey)) :
              i \notin Posted

\* A gateway received a message for the identity of its own key and one for
\* "gateway": only the second was POSTed.
C10_Witness ==
    /\ isGateway
    /\ Len(received) = 2
    /\ ToIs(received[1], DIDPrefix \o
                         Base58Encode(<<237, 1>> \o keypair.PublicKey))
    /\ ToIs(received[2], "gateway")
    /\ Posted = {2}

\* The value of a member of a request body, null when the body is no object
\* or does not name it.
MemberOf(text, k) ==
    IF text.t = "obj" /\ k \in MemberNames(text.m)
    THEN LastMember(text.m, k) ELSE JNull

\* Two JSON texts denote the same value as encoding/json reads them: names
\* in any order, the last of a repeated name, numbers as float64.
SameValue(a, b) == ToGo(a) = ToGo(b)

\* C3 (outbound envelope shape): what is published for a request r that
\* decodes is the object with exactly the two members `to` and `payload`,
\* `to` being r.to (null when r names none) and `payload` being all of r,
\* its own `to` included.  Values are compared as encoding/json reads them.
C3_EnvelopeShape ==
    \A e \in 1..Len(published) :
        LET r    == reqs[published[e].req].body
            data == published[e].data
        IN  /\ Decodes(r)
            /\ data.t = "obj"
            /\ Len(data.m) = 2
            /\ MemberNames(data.m) = {"to", "payload"}
            /\ SameValue(MemberOf(data, "to"), MemberOf(r, "to"))
            /\ SameValue(MemberOf(data, "payload"), r)

\* The request {"to": d, "foo": 1} was published as
\* {"payload": {"foo": 1, "to": d}, "to": d}.
C3_Witness ==
    \E e \in 1..Len(published) :
        /\ reqs[published[e].req].body =
              JObj(<< <<"to", JStr(DidA)>>, <<"foo", JNum("1")>> >>)
        /\ published[e].data =
              JObj(<< <<"payload", JObj(<< <<"foo", JNum("1")>>,
                                           <<"to", JStr(DidA)>> >>)>>,
                      <<"to", JStr(DidA)>> >>)

\* C4 (control-surface acknowledgment): every request whose body decodes is
\* answered 200 with the body {"status":"ok"}, whether its publish went
\* through or failed; a failed publish leaves its own handler going on to
\* the answer and the server up for the requests after it.
C4_Acknowledged ==
    \A i \in 1..Len(reqs) :
        /\ Decodes(reqs[i].body) /\ reqs[i].at = "done" =>
              /\ reqs[i].resp.status = 200
              /\ reqs[i].resp.body = JObj(<< <<"status", JStr("ok")>> >>)
        /\ Decodes(reqs[i].body) => reqs[i].at \in {"publish", "respond", "done"}
        /\ reqs[i].sent = "err" =>
              /\ reqs[i].at \in {"respond", "done"}
              /\ server = "up"

\* The publish of the first request failed; it was answered 200, and so was
\* the request after it.
C4_Witness ==
    /\ Len(reqs) = 2
    /\ reqs[1].sent = "err"
    /\ reqs[1].at = "done"
    /\ reqs[1].resp.status = 200
    /\ Decodes(reqs[2].body)
    /\ reqs[2].at = "done"
    /\ reqs[2].resp.status = 200

\* C5 (malformed local request): a request whose body does not decode is
\* answered 400, never with the acknowledgment, and nothing is published
\* for it.
C5_BadRequest ==
    \A i \in 1..Len(reqs) :
        ~Decodes(reqs[i].body) =>
            /\ reqs[i].resp.status = 400
            /\ reqs[i].resp.body # JObj(<< <<"status", JStr("ok")>> >>)
            /\ reqs[i].sent = "no"
            /\ \A e \in 1..Len(published) : published[e].req # i

\* Bytes that are no JSON were answered 400, and the request after them was
\* published.
C5_Witness ==
    /\ Len(reqs) = 2
    /\ reqs[1].body = JBad
    /\ reqs[1].resp.status = 400
    /\ Len(published) = 1
    /\ published[1].req = 2

\* C6 (partial bootstrap tolerance): whatever the bootstrap list is and
\* whichever of its addresses fail to parse or to connect, the failure ends
\* nothing: CreateLibp2pNode returns with one attempt made for every address
\* that parsed, the process never exits on a bootstrap peer, and when main
\* has come to serve, the topic is joined, the subscription is active and
\* the inbound loop is started.
C6_BootstrapTolerated ==
    /\ fatalAt \in {"none", "keypair", "hostkey", "host", "pubsub", "join",
                    "subscribe", "listen"}
    /\ pc \in {"join", "subscribe", "spawn", "serve", "wait"} =>
          /\ node = "open"
          /\ Len(dialed) = Cardinality({i \in 1..Len(bootstrap) :
                                           bootstrap[i] \in {PeerA, PeerB}})
    /\ pc \in {"serve", "wait"} =>
          /\ topic = "joined"
          /\ subscribed = "active"
          /\ loopPc = "next"

\* Three bootstrap peers, one malformed and one refusing the connection:
\* the node is up, subscribed, its inbound loop started.
C6_Witness ==
    /\ pc = "wait"
    /\ bootstrap = <<"", PeerA, PeerB>>
    /\ dialed = <<[info |-> PeerA, ok |-> FALSE], [info |-> PeerB, ok |-> TRUE]>>
    /\ topic = "joined"
    /\ subscribed = "active"
    /\ loopPc = "next"

\* C9 (identity determinism and injectivity): two non-gateway nodes have the
\* same identity when their public keys are equal and different identities
\* when they differ; a derived identity starts with the namespace prefix
\* and is never "gateway".
C9_IdentityInjective ==
    /\ did # "" /\ peer.did # "" /\ ~isGateway /\ ~peer.isGateway =>
          (did = peer.did <=> keypair.PublicKey = peer.PublicKey)
    /\ did # "" /\ ~isGateway =>
          /\ Len(did) > Len("did:sight:hoster:")
          /\ SubSeq(did, 1, Len("did:sight:hoster:")) = "did:sight:hoster:"
          /\ did # "gateway"

\* Two non-gateway nodes whose keys differ in the last byte only, both
\* identities derived.
C9_Witness ==
    /\ ~isGateway
    /\ ~peer.isGateway
    /\ keypair.PublicKey = <<1, 0>>
    /\ peer.PublicKey = <<1, 1>>
    /\ did # ""
    /\ peer.did # ""

\* The JSON value a text denotes: names in any order, the last of a repeated
\* name, every number by its value ("1.0" is 1).
RECURSIVE Denotes(_)
Denotes(j) ==
    CASE j.t = "obj" ->
            [v |-> "obj",
             kv |-> [k \in MemberNames(j.m) |-> Denotes(LastMember(j.m, k))]]
      [] j.t = "num" -> [v |-> "num", n |-> IF j.n = "1.0" THEN "1" ELSE j.n]
      [] OTHER       -> [v |-> "other", j |-> j]

\* C3 as stated: what is published for a request r that decodes is exactly
\* {to: r.to, payload: r}: the two members and no other, the payload
\* denoting the value r denotes.
C3_Claim ==
    \A e \in 1..Len(published) :
        LET r    == reqs[published[e].req].body
            data == published[e].data
        IN  /\ data.t = "obj"
            /\ Len(data.m) = 2
            /\ MemberNames(data.m) = {"to", "payload"}
            /\ Denotes(MemberOf(data, "to")) = Denotes(MemberOf(r, "to"))
            /\ Denotes(MemberOf(data, "payload")) = Denotes(r)

\* C7 as stated: once a keypair has been created and persisted, every later
\* LoadOrGenerateKeypair that returns, returns that keypair's seed, public
\* key and createdAt, with a lastUsed not before the stored one, and leaves
\* on disk the keypair it returned.
C7_Claim ==
    /\ created # <<>>
    /\ call.run = run
    /\ call.run > created[1].run
    /\ call.returned
    =>  /\ keypair.Seed = created[1].kp.Seed
        /\ keypair.PublicKey = created[1].kp.PublicKey
        /\ keypair.CreatedAt = created[1].kp.CreatedAt
        /\ ~UnmarshalKeypair(call.before).err
        /\ keypair.LastUsed >= UnmarshalKeypair(call.before).val.LastUsed
        /\ UnmarshalKeypair(file) = [err |-> FALSE, val |-> keypair]

\* C8 as stated: a call that finds the file there but cannot read or
\* deserialize it ends the process with no keypair returned, none generated
\* and the file as it was; a keypair is generated only by a call that finds
\* no file.
C8_Claim ==
    /\ call.generated => ~call.existed
    /\ /\ call.run = run
       /\ call.existed
       /\ \/ call.failed \in {"read", "unmarshal"}
          \/ UnmarshalKeypair(call.before).err
       =>  /\ pc = "fatal"
           /\ ~call.returned
           /\ ~call.generated
           /\ keypair = ZeroKeypair
           /\ file = call.before

\* Where C3 as stated fails: the request {"foo": 9007199254740993} is
\* published with the number encoding/json read it as, 9007199254740992.
C3_Rounded ==
    \E e \in 1..Len(published) :
        /\ reqs[published[e].req].body =
              JObj(<< <<"foo", JNum("9007199254740993")>> >>)
        /\ published[e].data =
              JObj(<< <<"payload", JObj(<< <<"foo", JNum("9007199254740992")>> >>)>>,
                      <<"to", JNull>> >>)

\* Where C7 as stated fails: in a run after the one that created the
\* keypair, Stat fails on the file that is there, and the call returns a
\* keypair with another seed.
C7_Regenerated ==
    /\ created # <<>>
    /\ call.run = run
    /\ call.run > created[1].run
    /\ call.existed
    /\ call.stat = "error"
    /\ call.returned
    /\ ~UnmarshalKeypair(call.before).err
    /\ UnmarshalKeypair(call.before).val.Seed = created[1].kp.Seed
    /\ keypair.Seed # created[1].kp.Seed

\* Where C8 as stated fails: the file is there and does not deserialize,
\* Stat fails on it, and the call generates a keypair, writes it over the
\* file and returns it.
C8_Overwritten ==
    /\ call.run = run
    /\ call.existed
    /\ call.stat = "error"
    /\ UnmarshalKeypair(call.before).err
    /\ call.generated
    /\ call.returned
    /\ file # call.before
    /\ pc # "fatal"

\* C11 as stated (shutdown cancellation): once Stop has returned, the
\* overlay host is closed and the subscription is closed or cancelled, and
\* a call of Stop leads to the inbound loop having exited.
C11_Claim ==
    /\ [](pc \in {"shutdown", "return", "exited"} =>
            node = "closed" /\ subscribed # "active")
    /\ (pc = "stop") ~> (loopPc = "exited")

\* Where C11 as stated fails: main has returned after Stop, the host is
\* closed, the subscription is still active and the inbound loop was still
\* in its Next call.
C11_StillBlocked ==
    /\ pc = "exited"
    /\ node = "closed"
    /\ subscribed = "active"
    /\ loopPc = "next"
    /\ received # <<>>

\* C12 (no partially-initialized node): when the keypair store, the host
\* creation, the topic join or the subscribe has failed, the process is
\* over with the inbound loop not started, the server not listening and no
\* request taken; and wherever the loop runs or the server listens, the
\* keypair is loaded, the host made, the topic joined and the subscription
\* active.
C12_NoPartialInit ==
    /\ fatalAt \in {"keypair", "hostkey", "host", "pubsub", "join", "subscribe"} =>
          /\ pc = "fatal"
          /\ loopPc = "none"
          /\ received = <<>>
          /\ server = "down"
          /\ reqs = <<>>
          /\ published = <<>>
    /\ loopPc # "none" \/ server # "down" =>
          /\ fatalAt \notin {"keypair", "hostkey", "host", "pubsub", "join",
                             "subscribe"}
          /\ keypair # ZeroKeypair
          /\ did # ""
          /\ node # "nil"
          /\ topic = "joined"
          /\ subscribed = "active"

\* The subscribe failed after the host was created and the topic joined:
\* the process is over, no loop, no server.
C12_Witness ==
    /\ pc = "fatal"
    /\ fatalAt = "subscribe"
    /\ node = "open"
    /\ topic = "joined"
    /\ subscribed = "nil"
    /\ loopPc = "none"
    /\ server = "down"

\* C13 (at-most-once forwarding): no received message has two tunnel POSTs;
\* a POST that failed stays failed, the only POST without an outcome being
\* the one the loop is in; and whether a message is POSTed, and with what
\* body, is settled by the message alone, whatever became of the POSTs
\* before it.
C13_AtMostOnce ==
    /\ \A p, q \in 1..Len(posts) : posts[p].idx = posts[q].idx => p = q
    /\ \A p \in 1..Len(posts) :
          posts[p].res = "pending" => p = Len(posts) /\ loopPc = "post"
    /\ \A i \in 1..Len(received) :
          (\E p \in 1..Len(posts) : posts[p].idx < i /\ posts[p].res = "err") =>
              /\ ToIs(received[i], did) <=> i \in Posted
              /\ \A q \in 1..Len(posts) :
                    posts[q].idx = i =>
                        SameValue(posts[q].body, MemberOf(received[i], "payload"))

\* The POST for the first message failed; the second message, the same
\* bytes again, got a POST of its own, which went through: two POSTs.
C13_Witness ==
    /\ Len(received) = 2
    /\ received[1] = received[2]
    /\ Len(posts) = 2
    /\ posts[1] = [idx |-> 1, body |-> posts[2].body, res |-> "err"]
    /\ posts[2].idx = 2
    /\ posts[2].res = "ok"
    /\ loopPc = "next"

\* C14 (inbound loop termination): the loop has exited exactly when Next
\* has returned its error, which is then the last thing received: no
\* message that does not decode, is for another node or whose POST failed
\* has ended it.  After the exit nothing is received and nothing POSTed:
\* every POST is for a message received before the error and has its
\* outcome.
C14_LoopTermination ==
    /\ loopPc = "exited" <=> (\E i \in 1..Len(received) : received[i] = NextError)
    /\ \A i \in 1..Len(received) : received[i] = NextError => i = Len(received)
    /\ loopPc = "exited" =>
          \A p \in 1..Len(posts) :
              /\ posts[p].idx < Len(received)
              /\ posts[p].res # "pending"
    /\ loopPc \in {"next", "post", "exited"}

\* Bytes that are no JSON, a message for another node and a message whose
\* POST failed were received, the loop going on each time; then Next
\* returned its error and the loop is over, one POST made.
C14_Witness ==
    /\ loopPc = "exited"
    /\ Len(received) = 4
    /\ received[1] = JBad
    /\ Decodes(received[2]) /\ ~ToIs(received[2], did)
    /\ ToIs(received[3], did)
    /\ received[4] = NextError
    /\ Len(posts) = 1
    /\ posts[1].idx = 3
    /\ posts[1].res = "err"

\* C15 as stated (single blocking point): the inbound loop waits in Next
\* and nowhere else, so while a tunnel POST has no answer yet the loop is
\* at Next, free to pull the message after it.
C15_Claim ==
    \A p \in 1..Len(posts) : posts[p].res = "pending" => loopPc = "next"

\* Where C15 as stated fails: the tunnel has not answered the POST for the
\* first message; the loop is inside http.Post, and no message can be
\* pulled although fewer than MaxMsgs have been.
C15_HeldByTunnel ==
    /\ Len(received) = 1
    /\ Len(received) < MaxMsgs
    /\ Len(posts) = 1
    /\ posts[1].res = "pending"
    /\ loopPc = "post"
    /\ ~ENABLED InboundNext
    /\ ~ENABLED InboundNextErr

\* The published messages whose request names the peer as receiver.
ForPeer ==
    {e \in 1..Len(published) :
        MemberOf(reqs[published[e].req].body, "to") = JStr(peer.did)}

\* C16 as stated (end-to-end round trip): for a request r whose `to` is
\* the peer's identity, once the peer's loop has received the envelope
\* published for r it has POSTed to its tunnel, once, a body that denotes
\* the value r denotes: all of r, its `to` included, and not the envelope.
C16_Claim ==
    \A e \in ForPeer :
        e \in 1..Len(peer.received) =>
            /\ Cardinality({p \in 1..Len(peer.posts) : peer.posts[p].idx = e}) = 1
            /\ \A p \in 1..Len(peer.posts) :
                  peer.posts[p].idx = e =>
                      Denotes(peer.posts[p].body) =
                          Denotes(reqs[published[e].req].body)

\* Where C16 as stated fails: the request
\* {"to": DidB, "foo": 9007199254740993} reaches the tunnel of the node
\* DidB as {"foo": 9007199254740992, "to": DidB}.
C16_Rounded ==
    /\ peer.did = DidB
    /\ Len(published) = 1
    /\ reqs[published[1].req].body =
          JObj(<< <<"to", JStr(DidB)>>, <<"foo", JNum("9007199254740993")>> >>)
    /\ peer.posts =
          << [idx |-> 1,
              body |-> JObj(<< <<"foo", JNum("9007199254740992")>>,
                               <<"to", JStr(DidB)>> >>)] >>

\* C16 with the values compared as encoding/json reads them (numbers as
\* float64): the round trip as far as the code has it.
RoundTrip_AsDecoded ==
    \A e \in ForPeer :
        e \in 1..Len(peer.received) =>
            /\ Cardinality({p \in 1..Len(peer.posts) : peer.posts[p].idx = e}) = 1
            /\ \A p \in 1..Len(peer.posts) :
                  peer.posts[p].idx = e =>
                      SameValue(peer.posts[p].body, reqs[published[e].req].body)

\* The configured addresses that are well-formed, in the configured order.
WellFormed == SelectSeq(bootstrap, LAMBDA a : a \in {PeerA, PeerB})

\* C17 (single bootstrap attempt per peer): no connect is attempted before
\* CreateLibp2pNode has made the host; once it has, the attempts made are
\* one for every configured address that is well-formed, in the configured
\* order, whatever the outcome of the attempts before it and however many
\* addresses did not parse; and they stay so to the end of startup.
C17_OneAttemptEach ==
    /\ node = "nil" => dialed = <<>>
    /\ node # "nil" =>
          /\ Len(dialed) = Len(WellFormed)
          /\ \A i \in 1..Len(dialed) : dialed[i].info = WellFormed[i]

\* PeerA, a malformed address and PeerB were configured; the connect to
\* PeerA failed; PeerB got its one attempt after it, and the node is up.
C17_Witness ==
    /\ bootstrap = <<PeerA, "", PeerB>>
    /\ dialed = <<[info |-> PeerA, ok |-> FALSE], [info |-> PeerB, ok |-> TRUE]>>
    /\ pc = "wait"

\* The identity part of C18: from the construction of the service on, s.did
\* is the gateway literal or the value derived from the public key of the
\* keypair the store returned, and stays so.
IdentityFromKeypair ==
    /\ pc \in {"load", "new"} => did = ""
    /\ pc \notin {"load", "new"} /\ fatalAt # "keypair" =>
          /\ keypair # ZeroKeypair
          /\ did = IF isGateway THEN "gateway"
                   ELSE ToSightDID(keypair.PublicKey)

\* C18 as stated (one keypair, one identity): the running node has one
\* keypair, the one the store returned: the key its overlay host runs
\* under is that keypair's; and its identity is the one derived from it.
C18_Claim ==
    /\ IdentityFromKeypair
    /\ node # "nil" => hostKey = keypair.PublicKey

\* Where C18 as stated fails: the node is up with the store's keypair
\* (public key 1, from which its identity is derived) and an overlay host
\* under a key of its own (public key 3).
C18_TwoKeypairs ==
    /\ pc = "wait"
    /\ keypair.PublicKey = <<1>>
    /\ did = DidA
    /\ node = "open"
    /\ hostKey = <<3>>

\* C19 (initialization ordering): wherever the server takes requests the
\* topic is joined and the subscription stored; wherever the inbound loop
\* has been started the subscription is stored; so every request handled
\* found s.topic set and every pull found s.subscribed set.
C19_InitOrder ==
    /\ server # "down" =>
          /\ node # "nil"
          /\ topic = "joined"
          /\ subscribed = "active"
          /\ loopPc # "none"
    /\ loopPc # "none" => topic = "joined" /\ subscribed = "active"
    /\ reqs # <<>> => topic = "joined"
    /\ received # <<>> \/ posts # <<>> => subscribed = "active"

\* Started from nothing, the process has come to wait for the signal; a
\* request was published and a message pulled and POSTed.
C19_Witness ==
    /\ pc = "wait"
    /\ call.generated
    /\ Len(published) = 1
    /\ Len(received) = 1
    /\ Len(posts) = 1
    /\ topic = "joined"
    /\ subscribed = "active"

\* The publishes recorded for request i.
PublishedFor(i) == {e \in 1..Len(published) : published[e].req = i}

\* Every request has the publish call it is due, and what was published for
\* it is the envelope of that request: a request that decoded and is past
\* its call of HandleOutgoingMessage had one Publish call (recorded once if
\* the topic took it, not at all if it failed), one that has not come to it
\* or did not decode has none; the envelope holds that request's `to` and
\* that request as payload, as encoding/json reads them.
OnePublishEach ==
    \A i \in 1..Len(reqs) :
        /\ Decodes(reqs[i].body) /\ reqs[i].at \in {"respond", "done"} =>
              /\ reqs[i].sent \in {"ok", "err"}
              /\ Cardinality(PublishedFor(i)) = IF reqs[i].sent = "ok" THEN 1 ELSE 0
        /\ ~Decodes(reqs[i].body) \/ reqs[i].at = "publish" =>
              /\ reqs[i].sent = "no"
              /\ PublishedFor(i) = {}
        /\ \A e \in PublishedFor(i) :
              /\ published[e].data.t = "obj"
              /\ MemberNames(published[e].data.m) = {"to", "payload"}
              /\ SameValue(MemberOf(published[e].data, "to"),
                           MemberOf(reqs[i].body, "to"))
              /\ SameValue(MemberOf(published[e].data, "payload"), reqs[i].body)

\* A step writes the state of one goroutine only: a step that changes the
\* record of a request leaves the record of every other request and the
\* state of the inbound loop as they are; a step of the inbound loop leaves
\* the requests and the published messages as they are; what was published
\* is never rewritten; and no step writes a field of the service.
OwnStateOnly ==
    /\ UNCHANGED <<did, keypair, node, hostKey, topic, subscribed, server>>
    /\ Len(reqs') >= Len(reqs)
    /\ \A i \in 1..Len(reqs) :
          reqs'[i] # reqs[i] =>
              /\ \A j \in 1..Len(reqs') : j # i /\ j <= Len(reqs) => reqs'[j] = reqs[j]
              /\ Len(reqs') = Len(reqs)
    /\ reqs' # reqs => UNCHANGED inboundVars
    /\ inboundVars' # inboundVars => UNCHANGED <<reqs, published>>
    /\ Len(published') >= Len(published)
    /\ \A e \in 1..Len(published) : published'[e] = published[e]

\* C20 (concurrent outbound requests): under every interleaving of the
\* request handlers and the inbound loop, every decoded request gets
\* exactly one publish call, carrying the envelope built from that request
\* and no other, and every step writes the state of its own goroutine only.
C20_Concurrent == []OnePublishEach /\ [][OwnStateOnly]_vars

\* Two requests with different bodies were in their handlers at once; the
\* second was published before the first, each with its own envelope, and
\* the inbound loop has pulled a message meanwhile.
C20_Witness ==
    /\ Len(reqs) = 2
    /\ reqs[1].body = JObj(<< <<"to", JStr(DidA)>>, <<"foo", JNum("1")>> >>)
    /\ reqs[2].body = JObj(<< <<"to", JStr("x")>>, <<"to", JStr(DidB)>> >>)
    /\ Len(published) = 2
    /\ published[1].req = 2
    /\ published[2].req = 1
    /\ Len(received) = 1
    /\ loopPc = "post"

====
